---- MODULE Spec2Model ----
(***************************************************************************)
(* Propositional formulas (propositions/syntax.py) and their semantics     *)
(* (propositions/semantics.py).                                            *)
(*                                                                         *)
(* Python values are represented as follows.                               *)
(*   character   a TLA+ string naming it ("p", "(", ...; "U+00B2" names    *)
(*               the character SUPERSCRIPT TWO)                            *)
(*   str         a sequence of characters                                  *)
(*   Formula     a record holding exactly the attributes __init__ assigns  *)
(*   None        None (where a Formula may stand), NoneStr (where a str)   *)
(*   dict        a sequence of <<key, value>> pairs in insertion order     *)
(*   list/tuple  a sequence                                                *)
(* The outcome of a call is Return(v), ReturnNone or Raise(exception).     *)
(***************************************************************************)
EXTENDS Integers, Sequences, FiniteSets, TLC

VARIABLES pc, op, formula, string, model, variables_, values, substitution_map, rule, order, ret

vars == <<pc, op, formula, string, model, variables_, values, substitution_map, rule, order, ret>>

(***************************************************************************)
(* Bounds of the checked inputs.                                           *)
(***************************************************************************)
\* Largest number of nodes of an input formula.
MaxSize == 5
\* Largest length of an input string drawn freely over Chars.
MaxStrLen == 4
\* Largest length of a variable list given to all_models and synthesize.
MaxVars == 2
\* Largest number of assumptions of an inference rule.
MaxAssumptions == 1

(***************************************************************************)
(* Python values.                                                          *)
(***************************************************************************)
None == [none |-> TRUE]
NoneStr == <<"<None>">>
Return(v) == [kind |-> "return", val |-> v]
ReturnNone == [kind |-> "return", none |-> TRUE]
Raise(e) == [kind |-> "raise", exc |-> e]
Pending == [kind |-> "pending"]
\* An exception object travelling through an expression.
Exc(e) == [exc |-> e]

\* A non-empty human-readable message; only its non-emptiness is ever read.
Msg(m) == <<m>>

LettersPToZ == {"p", "q", "r", "s", "t", "u", "v", "w", "x", "y", "z"}
AsciiDigits == {"0", "1", "2", "3", "4", "5", "6", "7", "8", "9"}
\* Characters outside 0-9 for which str.isdigit() is true; U+00B2 stands for them.
OtherUnicodeDigits == {"U+00B2"}

\* str.isdigit() of one character.
char_isdigit(c) == c \in AsciiDigits \cup OtherUnicodeDigits

\* str.isdigit(): at least one character and every character a digit.
isdigit(s) == Len(s) >= 1 /\ \A i \in 1..Len(s) : char_isdigit(s[i])

(***************************************************************************)
(* Token classifiers.  is_variable is only applied to non-empty strings    *)
(* (string[0] of the empty string raises IndexError).                      *)
(***************************************************************************)
is_variable(s) ==
    /\ s[1] \in LettersPToZ
    /\ (Len(s) = 1 \/ isdigit(Tail(s)))

is_constant(s) == s = <<"T">> \/ s = <<"F">>

is_unary(s) == s = <<"~">>

is_binary(s) == s = <<"&">> \/ s = <<"|">> \/ s = <<"-", ">">>

(***************************************************************************)
(* Formula.__init__: the attributes assigned depend on the root; first and *)
(* second are not assigned (and so absent) on a variable or constant, and  *)
(* second is absent on a unary formula.                                    *)
(***************************************************************************)
Formula(root, first, second) ==
    IF is_variable(root) \/ is_constant(root)
    THEN IF first = None /\ second = None
         THEN [root |-> root]
         ELSE Exc("AssertionError")
    ELSE IF is_unary(root)
    THEN IF first # None /\ second = None
         THEN [root |-> root, first |-> first]
         ELSE Exc("AssertionError")
    ELSE IF is_binary(root) /\ first # None /\ second # None
         THEN [root |-> root, first |-> first, second |-> second]
         ELSE Exc("AssertionError")

\* Formula.__repr__
RECURSIVE Formula__repr__(_)
Formula__repr__(self) ==
    IF is_variable(self.root) \/ is_constant(self.root)
    THEN self.root
    ELSE IF is_unary(self.root)
    THEN self.root \o Formula__repr__(self.first)
    ELSE <<"(">> \o Formula__repr__(self.first) \o self.root
             \o Formula__repr__(self.second) \o <<")">>

\* Formula.__eq__ on two Formula objects
Formula__eq__(self, other) == Formula__repr__(self) = Formula__repr__(other)

\* Formula.variables
RECURSIVE Formula_variables(_)
Formula_variables(self) ==
    IF is_variable(self.root) THEN {self.root}
    ELSE IF is_constant(self.root) THEN {}
    ELSE IF is_unary(self.root) THEN Formula_variables(self.first)
    ELSE Formula_variables(self.first) \cup Formula_variables(self.second)

\* Formula.operators
RECURSIVE Formula_operators(_)
Formula_operators(self) ==
    IF is_variable(self.root) THEN {}
    ELSE IF is_constant(self.root) THEN {self.root}
    ELSE IF is_unary(self.root) THEN {self.root} \cup Formula_operators(self.first)
    ELSE {self.root} \cup Formula_operators(self.first)
                     \cup Formula_operators(self.second)

(***************************************************************************)
(* The parser.  A result is the pair <<formula or None, rest or message>>. *)
(***************************************************************************)
\* string[i:] for 0 <= i (Python index), the empty string past the end.
StrFrom(s, i) == IF i >= Len(s) THEN <<>> ELSE SubSeq(s, i + 1, Len(s))

\* The number of leading characters of s, from Python index 1, that are digits.
RECURSIVE DigitRun(_, _)
DigitRun(s, i) ==
    IF i < Len(s) /\ char_isdigit(s[i + 1]) THEN DigitRun(s, i + 1) ELSE i

\* parse_variable reading at most one digit after the letter
parse_variable_one_digit(s) ==
    IF 0 < Len(s)
    THEN IF is_variable(<<s[1]>>)
         THEN LET i == IF 1 < Len(s) /\ char_isdigit(s[2]) THEN 2 ELSE 1
              IN  <<Formula(SubSeq(s, 1, i), None, None), StrFrom(s, i)>>
         ELSE <<None, Msg("error parsing variable")>>
    ELSE <<None, Msg("error parsing variable")>>

\* Formula.parse_variable
parse_variable(s) ==
    IF 0 < Len(s)
    THEN IF is_variable(<<s[1]>>)
         THEN LET i == DigitRun(s, 1)
              IN  <<Formula(SubSeq(s, 1, i), None, None), StrFrom(s, i)>>
         ELSE <<None, Msg("error parsing variable")>>
    ELSE <<None, Msg("error parsing variable")>>

\* Formula.parse_operator
parse_operator(s) ==
    IF 0 < Len(s)
    THEN IF s[1] = "-"
         THEN IF 1 < Len(s) /\ s[2] = ">"
              THEN <<<<"-", ">">>, StrFrom(s, 2)>>
              ELSE <<NoneStr, Msg("invalid string expected >")>>
         ELSE IF is_binary(<<s[1]>>)
              THEN <<<<s[1]>>, StrFrom(s, 1)>>
              ELSE <<NoneStr, Msg("invalid string for operator")>>
    ELSE <<NoneStr, Msg("invalid string for operator")>>

\* Formula._parse_prefix
RECURSIVE _parse_prefix(_)
_parse_prefix(s) ==
    IF s = <<>> THEN <<None, Msg("Error, empty string")>>
    ELSE LET cur_char == <<s[1]>> IN
    IF cur_char = <<"(">>
    THEN LET r1 == _parse_prefix(Tail(s)) IN
         IF r1[1] = None THEN <<None, Msg("error parsing string all formula")>>
         ELSE LET r2 == parse_operator(r1[2]) IN
         IF r2[1] = NoneStr THEN <<None, Msg("error parsing string all formula")>>
         ELSE LET r3 == _parse_prefix(r2[2]) IN
         IF r3[1] = None THEN <<None, Msg("error parsing string all formula")>>
         ELSE IF Len(r3[2]) > 0 /\ r3[2][1] = ")"
              THEN <<Formula(r2[1], r1[1], r3[1]), Tail(r3[2])>>
              ELSE <<None, Msg("error parsing string all formula")>>
    ELSE IF is_variable(cur_char) THEN parse_variable(s)
    ELSE IF is_constant(cur_char) THEN <<Formula(cur_char, None, None), Tail(s)>>
    ELSE IF is_unary(cur_char)
         THEN LET r == _parse_prefix(Tail(s)) IN
              IF r[1] # None
              THEN <<Formula(<<"~">>, r[1], None), r[2]>>
              ELSE <<None, Msg("invalid string")>>
    ELSE <<None, Msg("invalid string")>>

\* Formula.is_formula
is_formula(s) == _parse_prefix(s)[2] = <<>>

\* Formula.parse
parse(s) ==
    IF is_formula(s) THEN Return(_parse_prefix(s)[1]) ELSE Raise("AssertionError")

\* Formula.polish: reading an attribute __init__ did not assign raises
\* AttributeError; a Formula object is truthy.
RECURSIVE polish(_)
polish(self) ==
    IF "first" \notin DOMAIN self THEN Raise("AttributeError")
    ELSE LET a == polish(self.first) IN
         IF a.kind = "raise" THEN a
         ELSE IF "second" \notin DOMAIN self THEN Raise("AttributeError")
         ELSE LET b == polish(self.second) IN
              IF b.kind = "raise" THEN b
              ELSE Return(self.root \o a.val \o b.val)

(***************************************************************************)
(* dict: <<key, value>> pairs in insertion order, keys distinct.           *)
(***************************************************************************)
dict_keys(d) == [i \in 1..Len(d) |-> d[i][1]]

dict_keyset(d) == {d[i][1] : i \in 1..Len(d)}

\* d.get(k) for a key of d
dict_get(d, k) == d[CHOOSE i \in 1..Len(d) : d[i][1] = k][2]

\* d[k] = v: a present key keeps its position, a new key is appended.
dict_set(d, k, v) ==
    IF k \in dict_keyset(d)
    THEN [i \in 1..Len(d) |-> IF d[i][1] = k THEN <<k, v>> ELSE d[i]]
    ELSE Append(d, <<k, v>>)

\* Formula.substitute_variables: the body checks the keys and ends.
substitute_variables(self, map) ==
    IF \A i \in 1..Len(map) : is_variable(map[i][1])
    THEN ReturnNone
    ELSE Raise("AssertionError")

\* Formula.substitute_operators: the body checks the map and ends.
substitute_operators(self, map) ==
    IF \A i \in 1..Len(map) :
          /\ is_binary(map[i][1]) \/ is_unary(map[i][1]) \/ is_constant(map[i][1])
          /\ Formula_variables(map[i][2]) \subseteq {<<"p">>, <<"q">>}
    THEN ReturnNone
    ELSE Raise("AssertionError")

(***************************************************************************)
(* propositions/semantics.py                                               *)
(***************************************************************************)
is_model(m) == \A i \in 1..Len(m) : is_variable(m[i][1])

\* variables(model), the keys as a set (its assertion is made by the caller
\* before it, see evaluate)
variables(m) == dict_keyset(m)

\* evaluate with -> computed as the conjunction of its operands
RECURSIVE evaluate(_, _)
evaluate_implies_as_and(f, m) ==
    IF ~is_model(m) THEN Raise("AssertionError")
    ELSE IF ~(Formula_variables(f) \subseteq variables(m)) THEN Raise("AssertionError")
    ELSE IF is_variable(f.root) THEN Return(dict_get(m, f.root))
    ELSE IF f.root = <<"F">> THEN Return(FALSE)
    ELSE IF f.root = <<"T">> THEN Return(TRUE)
    ELSE IF is_unary(f.root)
         THEN LET a == evaluate(f.first, m) IN
              IF a.kind = "raise" THEN a ELSE Return(~a.val)
    ELSE IF f.root = <<"&">>
         THEN LET a == evaluate(f.first, m) IN
              IF a.kind = "raise" \/ ~a.val THEN a ELSE evaluate(f.second, m)
    ELSE IF f.root = <<"|">>
         THEN LET a == evaluate(f.first, m) IN
              IF a.kind = "raise" \/ a.val THEN a ELSE evaluate(f.second, m)
    ELSE IF f.root = <<"-", ">">>
         THEN LET left_res == evaluate(f.first, m)
                  right_res == evaluate(f.second, m) IN
              IF left_res.kind = "raise" THEN left_res
              ELSE IF right_res.kind = "raise" THEN right_res
              ELSE IF left_res.val /\ right_res.val
                   THEN Return(TRUE)
                   ELSE Return(FALSE)
    ELSE ReturnNone

\* evaluate; x and y is x when x is false and y otherwise, x or y is x when
\* x is true and y otherwise.
evaluate(f, m) ==
    IF ~is_model(m) THEN Raise("AssertionError")
    ELSE IF ~(Formula_variables(f) \subseteq variables(m)) THEN Raise("AssertionError")
    ELSE IF is_variable(f.root) THEN Return(dict_get(m, f.root))
    ELSE IF f.root = <<"F">> THEN Return(FALSE)
    ELSE IF f.root = <<"T">> THEN Return(TRUE)
    ELSE IF is_unary(f.root)
         THEN LET a == evaluate(f.first, m) IN
              IF a.kind = "raise" THEN a ELSE Return(~a.val)
    ELSE IF f.root = <<"&">>
         THEN LET a == evaluate(f.first, m) IN
              IF a.kind = "raise" \/ ~a.val THEN a ELSE evaluate(f.second, m)
    ELSE IF f.root = <<"|">>
         THEN LET a == evaluate(f.first, m) IN
              IF a.kind = "raise" \/ a.val THEN a ELSE evaluate(f.second, m)
    ELSE IF f.root = <<"-", ">">>
         THEN LET left_res == evaluate(f.first, m)
                  right_res == evaluate(f.second, m) IN
              IF left_res.kind = "raise" THEN left_res
              ELSE IF right_res.kind = "raise" THEN right_res
              ELSE IF left_res.val = FALSE \/ (left_res.val /\ right_res.val)
                   THEN Return(TRUE)
                   ELSE Return(FALSE)
    ELSE ReturnNone

\* itertools.product([False, True], repeat=n): every earlier tuple extended
\* by False, then by True.
RECURSIVE product(_)
product(n) ==
    IF n = 0 THEN << <<>> >>
    ELSE LET result == product(n - 1) IN
         [j \in 1..(2 * Len(result)) |->
             Append(result[(j + 1) \div 2], j % 2 = 0)]

\* The dict built by cur_dict[v] = assignment[i] for i, v in enumerate(vs).
RECURSIVE cur_dict(_, _, _)
cur_dict(vs, assignment, n) ==
    IF n = 0 THEN <<>>
    ELSE dict_set(cur_dict(vs, assignment, n - 1), vs[n], assignment[n])

\* all_models with the last variable as the most significant position
all_models_last_most_significant(vs) ==
    IF \E i \in 1..Len(vs) : ~is_variable(vs[i]) THEN Raise("AssertionError")
    ELSE LET assignments == product(Len(vs))
             n == Len(vs) IN
         Return([k \in 1..Len(assignments) |->
                    cur_dict(vs, [i \in 1..n |-> assignments[k][n + 1 - i]], n)])

\* all_models
all_models(vs) ==
    IF \E i \in 1..Len(vs) : ~is_variable(vs[i]) THEN Raise("AssertionError")
    ELSE LET assignments == product(Len(vs)) IN
         Return([k \in 1..Len(assignments) |-> cur_dict(vs, assignments[k], Len(vs))])

\* truth_values
truth_values(f, models) ==
    LET res == [k \in 1..Len(models) |-> evaluate(f, models[k])] IN
    IF \E k \in 1..Len(models) : res[k].kind = "raise"
    THEN Raise("AssertionError")
    ELSE Return([k \in 1..Len(models) |-> res[k].val])

\* is_tautology answering True as soon as one model satisfies the formula
is_tautology_some_model(f, it) ==
    LET models == all_models(it) IN
    IF models.kind = "raise" THEN models
    ELSE LET res == truth_values(f, models.val) IN
         IF res.kind = "raise" THEN res
         ELSE Return(\E k \in 1..Len(res.val) : res.val[k])

\* is_tautology; it is the order in which the set formula.variables() is
\* iterated (a sequence of its elements), which Python leaves open.
is_tautology(f, it) ==
    LET models == all_models(it) IN
    IF models.kind = "raise" THEN models
    ELSE LET res == truth_values(f, models.val) IN
         IF res.kind = "raise" THEN res
         ELSE Return(\A k \in 1..Len(res.val) : res.val[k])

\* is_contradiction
is_contradiction(f, it) == is_tautology(Formula(<<"~">>, f, None), it)

\* is_satisfiable
is_satisfiable(f, it) ==
    LET c == is_contradiction(f, it) IN
    IF c.kind = "raise" THEN c ELSE Return(~c.val)

\* _synthesize_for_model_helper
RECURSIVE _synthesize_for_model_helper(_, _)
\* _synthesize_for_model_helper putting the literal of the first variable last
_synthesize_for_model_helper_reversed(vs, m) ==
    LET v == Formula(vs[1], None, None)
        cur_formula == IF ~dict_get(m, vs[1]) THEN Formula(<<"~">>, v, None) ELSE v
    IN  IF Len(vs) = 1
        THEN cur_formula
        ELSE Formula(<<"&">>, _synthesize_for_model_helper(Tail(vs), m), cur_formula)

_synthesize_for_model_helper(vs, m) ==
    LET v == Formula(vs[1], None, None)
        cur_formula == IF ~dict_get(m, vs[1]) THEN Formula(<<"~">>, v, None) ELSE v
    IN  IF Len(vs) = 1
        THEN cur_formula
        ELSE Formula(<<"&">>, cur_formula, _synthesize_for_model_helper(Tail(vs), m))

\* _synthesize_for_model, on a model with variable keys (all_models made it)
_synthesize_for_model(m) ==
    IF ~is_model(m) \/ ~(Len(dict_keys(m)) > 0)
    THEN Exc("AssertionError")
    ELSE _synthesize_for_model_helper(dict_keys(m), m)

\* The loop of synthesize joining the clauses with & instead of |
RECURSIVE synthesize_loop(_, _, _)
synthesize_loop_conjoin(models, vals, n) ==
    IF n = 0 THEN None
    ELSE LET cur_formula == synthesize_loop(models, vals, n - 1) IN
         IF vals[n]
         THEN IF cur_formula = None
              THEN _synthesize_for_model(models[n])
              ELSE Formula(<<"&">>, cur_formula, _synthesize_for_model(models[n]))
         ELSE cur_formula

\* The value of cur_formula after the first n models of the loop of synthesize.
synthesize_loop(models, vals, n) ==
    IF n = 0 THEN None
    ELSE LET cur_formula == synthesize_loop(models, vals, n - 1) IN
         IF vals[n]
         THEN IF cur_formula = None
              THEN _synthesize_for_model(models[n])
              ELSE Formula(<<"|">>, cur_formula, _synthesize_for_model(models[n]))
         ELSE cur_formula

\* synthesize
synthesize(vs, vals) ==
    IF ~(Len(vs) > 0) THEN Raise("AssertionError")
    ELSE LET models == all_models(vs) IN
         IF models.kind = "raise" THEN models
         ELSE LET cur_formula == synthesize_loop(models.val, vals, Len(models.val)) IN
              IF cur_formula = None
              THEN Return(Formula(<<"&">>, Formula(vs[1], None, None),
                                  Formula(<<"~">>, Formula(vs[1], None, None), None)))
              ELSE Return(cur_formula)

\* evaluate_inference: the body checks the model and ends.
evaluate_inference(r, m) ==
    IF is_model(m) THEN ReturnNone ELSE Raise("AssertionError")

(***************************************************************************)
(* The inputs the calls are checked on.                                    *)
(***************************************************************************)
\* Variable names at the leaves of the input formulas.
VarNames == {<<"p">>, <<"q", "7", "6">>}
\* Variable names of the lists given to all_models and synthesize.
ListNames == VarNames \cup {<<"q">>}
Constants == {<<"T">>, <<"F">>}
BinaryOperators == {<<"&">>, <<"|">>, <<"-", ">">>}

\* The formulas of exactly n nodes that the constructor accepts.
RECURSIVE FormulasOfSize(_)
FormulasOfSize(n) ==
    IF n = 1 THEN {Formula(r, None, None) : r \in VarNames \cup Constants}
    ELSE {Formula(<<"~">>, f, None) : f \in FormulasOfSize(n - 1)}
         \cup UNION {{Formula(b, f, g) : b \in BinaryOperators,
                                         f \in FormulasOfSize(k),
                                         g \in FormulasOfSize(n - 1 - k)}
                     : k \in 1..(n - 2)}

Formulas == UNION {FormulasOfSize(n) : n \in 1..MaxSize}

\* Formulas over a variable name that ends in a non-ASCII digit, which
\* is_variable and so the constructor accept.
OddlyNamedFormulas ==
    LET v == Formula(<<"z", "0", "U+00B2">>, None, None) IN
    {v, Formula(<<"~">>, v, None), Formula(<<"-", ">">>, v, Formula(<<"&">>, v, v))}

\* The formula of the example of substitute_operators: ((x&y)&~z).
ExampleFormula ==
    Formula(<<"&">>, Formula(<<"&">>, Formula(<<"x">>, None, None),
                                      Formula(<<"y">>, None, None)),
                     Formula(<<"~">>, Formula(<<"z">>, None, None), None))

\* The formula of the example of substitute_variables: ((p->p)|r).
ExampleFormula2 ==
    Formula(<<"|">>, Formula(<<"-", ">">>, Formula(<<"p">>, None, None),
                                           Formula(<<"p">>, None, None)),
                     Formula(<<"r">>, None, None))

Chars == {"p", "7", "U+00B2", "T", "~", "(", ")", "&", "-", ">", "a"}

\* The strings of exactly n characters
StringsOfLen(n) == [1..n -> Chars]

\* s with its i-th character removed
Without(s, i) == SubSeq(s, 1, i - 1) \o SubSeq(s, i + 1, Len(s))

\* The serialization of f with one character removed or one appended
NearSerialization(f) ==
    LET s == Formula__repr__(f) IN
    {Without(s, i) : i \in 1..Len(s)} \cup {s \o <<c>> : c \in {")", "7", "U+00B2"}}

\* The sequences over S of length at most n
RECURSIVE SeqsUpTo(_, _)
SeqsUpTo(S, n) ==
    IF n = 0 THEN {<<>>}
    ELSE SeqsUpTo(S, n - 1)
         \cup {Append(s, x) : s \in {q \in SeqsUpTo(S, n - 1) : Len(q) = n - 1}, x \in S}

VarLists == SeqsUpTo(ListNames, MaxVars)

\* The sequences that enumerate the set S once each
Enumerations(S) ==
    {s \in SeqsUpTo(S, Cardinality(S)) :
        Len(s) = Cardinality(S) /\ {s[i] : i \in 1..Len(s)} = S}

\* The dicts with the given keys, in that order
DictsOver(keys) ==
    {[i \in 1..Len(keys) |-> <<keys[i], b[i]>>] : b \in [1..Len(keys) -> BOOLEAN]}

\* Keys of the input models: the variable names and one key that is no variable.
ModelKeys == <<<<"p">>, <<"q", "7", "6">>, <<"T">>>>

\* The subsequences of s
RECURSIVE SubSeqs(_)
SubSeqs(s) ==
    IF s = <<>> THEN {<<>>}
    ELSE LET rest == SubSeqs(Tail(s)) IN rest \cup {<<s[1]>> \o r : r \in rest}

\* Models with the key p followed by a non-ASCII digit, which is_variable accepts.
OddKeyModels ==
    DictsOver(<<<<"p", "U+00B2">>>>)
    \cup DictsOver(<<<<"p">>, <<"q", "7", "6">>, <<"p", "U+00B2">>>>)

Models == UNION {DictsOver(keys) : keys \in SubSeqs(ModelKeys)} \cup OddKeyModels

\* Templates and maps for substitute_operators
TemplateAnd ==
    Formula(<<"~">>, Formula(<<"|">>,
        Formula(<<"~">>, Formula(<<"p">>, None, None), None),
        Formula(<<"~">>, Formula(<<"q">>, None, None), None)), None)
TemplateT ==
    Formula(<<"|">>, Formula(<<"p">>, None, None),
                     Formula(<<"~">>, Formula(<<"p">>, None, None), None))
TemplateNot ==
    Formula(<<"-", ">">>, Formula(<<"p">>, None, None), Formula(<<"F">>, None, None))

OperatorMaps ==
    { <<>>,
      << <<<<"&">>, TemplateAnd>> >>,
      << <<<<"&">>, TemplateAnd>>, <<<<"T">>, TemplateT>> >>,
      << <<<<"~">>, TemplateNot>> >>,
      << <<<<"p">>, TemplateT>> >>,
      << <<<<"&">>, Formula(<<"r">>, None, None)>> >> }

VariableMaps ==
    { <<>>,
      << <<<<"p">>, Formula(<<"&">>, Formula(<<"q">>, None, None),
                                     Formula(<<"r">>, None, None))>>,
         <<<<"r">>, Formula(<<"p">>, None, None)>> >>,
      << <<<<"q", "7", "6">>, Formula(<<"~">>, Formula(<<"q", "7", "6">>, None, None), None)>> >>,
      << <<<<"T">>, Formula(<<"p">>, None, None)>> >> }

\* Inference rules: assumptions and a conclusion (propositions/proofs.py)
RuleFormulas == FormulasOfSize(1) \cup FormulasOfSize(2)
InferenceRule(assumptions, conclusion) ==
    [assumptions |-> assumptions, conclusion |-> conclusion]
Rules ==
    {InferenceRule(a, c) : a \in SeqsUpTo(RuleFormulas, MaxAssumptions), c \in RuleFormulas}

(***************************************************************************)
(* The state machine: a caller picks an operation and its arguments (the   *)
(* initial states), and one action per operation runs the call and records *)
(* its outcome in ret.  An argument a call does not take holds its default.*)
(***************************************************************************)
Call(o, f, s, m, vs, vals, smap, r, it) ==
    /\ pc = "call" /\ op = o /\ ret = Pending
    /\ formula = f /\ string = s /\ model = m /\ variables_ = vs /\ values = vals
    /\ substitution_map = smap /\ rule = r /\ order = it

InitStr == \E f \in Formulas \cup OddlyNamedFormulas :
    Call("str", f, NoneStr, <<>>, <<>>, <<>>, <<>>, None, <<>>)
\* A call on a free string or on a string next to a serialization
CallOnString(o) ==
    \/ \E n \in 0..MaxStrLen : \E s \in StringsOfLen(n) :
          Call(o, None, s, <<>>, <<>>, <<>>, <<>>, None, <<>>)
    \/ \E f \in Formulas : \E s \in NearSerialization(f) :
          Call(o, None, s, <<>>, <<>>, <<>>, <<>>, None, <<>>)
InitIsFormula == CallOnString("is_formula")
InitParse == CallOnString("parse")
InitPolish == \E f \in Formulas :
    Call("polish", f, NoneStr, <<>>, <<>>, <<>>, <<>>, None, <<>>)
InitSubstituteVariables == \E f \in Formulas \cup {ExampleFormula2}, smap \in VariableMaps :
    Call("substitute_variables", f, NoneStr, <<>>, <<>>, <<>>, smap, None, <<>>)
InitSubstituteOperators == \E f \in Formulas \cup {ExampleFormula}, smap \in OperatorMaps :
    Call("substitute_operators", f, NoneStr, <<>>, <<>>, <<>>, smap, None, <<>>)

InitAllModels == \E vs \in VarLists :
    Call("all_models", None, NoneStr, <<>>, vs, <<>>, <<>>, None, <<>>)
InitEvaluate == \E f \in Formulas, m \in Models :
    Call("evaluate", f, NoneStr, m, <<>>, <<>>, <<>>, None, <<>>)
InitSynthesize == \E vs \in VarLists :
    \E vals \in [1..(2 ^ Len(vs)) -> BOOLEAN] :
        Call("synthesize", None, NoneStr, <<>>, vs, vals, <<>>, None, <<>>)
InitAnalysis == \E o \in {"is_tautology", "is_contradiction", "is_satisfiable"} :
    \E f \in Formulas : \E it \in Enumerations(Formula_variables(f)) :
        Call(o, f, NoneStr, <<>>, <<>>, <<>>, <<>>, None, it)
InitEvaluateInference == \E r \in Rules, m \in Models :
    Call("evaluate_inference", None, NoneStr, m, <<>>, <<>>, <<>>, r, <<>>)

SyntaxInit ==
    \/ InitStr \/ InitIsFormula \/ InitParse \/ InitPolish
    \/ InitSubstituteVariables \/ InitSubstituteOperators

SemanticsInit ==
    \/ InitAllModels \/ InitEvaluate \/ InitSynthesize \/ InitAnalysis
    \/ InitEvaluateInference

\* The call returns (or raises) r.
Done(r) == pc' = "done" /\ ret' = r

\* str(formula); the string is kept for a following parse or is_formula.
Str ==
    /\ pc = "call" /\ op = "str"
    /\ string' = Formula__repr__(formula)
    /\ Done(Return(string'))
    /\ UNCHANGED <<op, formula, model, variables_, values, substitution_map, rule, order>>

\* Formula.is_formula(string), on a given string or on the one str returned.
IsFormula ==
    /\ \/ pc = "call" /\ op = "is_formula"
       \/ pc = "done" /\ op = "str"
    /\ op' = "is_formula"
    /\ Done(Return(is_formula(string)))
    /\ UNCHANGED <<formula, string, model, variables_, values, substitution_map, rule, order>>

\* Formula.parse(string), on a given string or on the one str returned.
Parse ==
    /\ \/ pc = "call" /\ op = "parse"
       \/ pc = "done" /\ op = "str"
    /\ op' = "parse"
    /\ Done(parse(string))
    /\ UNCHANGED <<formula, string, model, variables_, values, substitution_map, rule, order>>

Polish ==
    /\ pc = "call" /\ op = "polish"
    /\ Done(polish(formula))
    /\ UNCHANGED <<op, formula, string, model, variables_, values, substitution_map, rule, order>>

SubstituteVariables ==
    /\ pc = "call" /\ op = "substitute_variables"
    /\ Done(substitute_variables(formula, substitution_map))
    /\ UNCHANGED <<op, formula, string, model, variables_, values, substitution_map, rule, order>>

SubstituteOperators ==
    /\ pc = "call" /\ op = "substitute_operators"
    /\ Done(substitute_operators(formula, substitution_map))
    /\ UNCHANGED <<op, formula, string, model, variables_, values, substitution_map, rule, order>>

AllModels ==
    /\ pc = "call" /\ op = "all_models"
    /\ Done(all_models(variables_))
    /\ UNCHANGED <<op, formula, string, model, variables_, values, substitution_map, rule, order>>

Evaluate ==
    /\ pc = "call" /\ op = "evaluate"
    /\ Done(evaluate(formula, model))
    /\ UNCHANGED <<op, formula, string, model, variables_, values, substitution_map, rule, order>>

\* synthesize(variables, values); the formula is kept for a following
\* truth_values.
Synthesize ==
    /\ pc = "call" /\ op = "synthesize"
    /\ LET r == synthesize(variables_, values) IN
       /\ Done(r)
       /\ formula' = IF r.kind = "return" THEN r.val ELSE None
    /\ UNCHANGED <<op, string, model, variables_, values, substitution_map, rule, order>>

\* truth_values(formula, all_models(variables)) on the formula synthesize
\* returned.
TruthValues ==
    /\ pc = "done" /\ op = "synthesize" /\ formula # None
    /\ op' = "truth_values"
    /\ LET models == all_models(variables_) IN
       Done(IF models.kind = "raise" THEN models ELSE truth_values(formula, models.val))
    /\ UNCHANGED <<formula, string, model, variables_, values, substitution_map, rule, order>>

IsTautology ==
    /\ pc = "call" /\ op = "is_tautology"
    /\ Done(is_tautology(formula, order))
    /\ UNCHANGED <<op, formula, string, model, variables_, values, substitution_map, rule, order>>

IsContradiction ==
    /\ pc = "call" /\ op = "is_contradiction"
    /\ Done(is_contradiction(formula, order))
    /\ UNCHANGED <<op, formula, string, model, variables_, values, substitution_map, rule, order>>

IsSatisfiable ==
    /\ pc = "call" /\ op = "is_satisfiable"
    /\ Done(is_satisfiable(formula, order))
    /\ UNCHANGED <<op, formula, string, model, variables_, values, substitution_map, rule, order>>

EvaluateInference ==
    /\ pc = "call" /\ op = "evaluate_inference"
    /\ Done(evaluate_inference(rule, model))
    /\ UNCHANGED <<op, formula, string, model, variables_, values, substitution_map, rule, order>>

SyntaxNext ==
    \/ Str \/ IsFormula \/ Parse \/ Polish
    \/ SubstituteVariables \/ SubstituteOperators

SemanticsNext ==
    \/ AllModels \/ Evaluate \/ Synthesize \/ TruthValues
    \/ IsTautology \/ IsContradiction \/ IsSatisfiable \/ EvaluateInference

SyntaxSpec == SyntaxInit /\ [][SyntaxNext]_vars

SemanticsSpec == SemanticsInit /\ [][SemanticsNext]_vars

(***************************************************************************)
(* Reference notions the properties are stated with.                       *)
(***************************************************************************)
\* The truth-functional semantics under an assignment a (a function from
\* variable names to BOOLEAN).
RECURSIVE Truth(_, _)
Truth(f, a) ==
    CASE f.root \in DOMAIN a -> a[f.root]
      [] f.root = <<"T">> -> TRUE
      [] f.root = <<"F">> -> FALSE
      [] f.root = <<"~">> -> ~Truth(f.first, a)
      [] f.root = <<"&">> -> Truth(f.first, a) /\ Truth(f.second, a)
      [] f.root = <<"|">> -> Truth(f.first, a) \/ Truth(f.second, a)
      [] f.root = <<"-", ">">> -> (Truth(f.first, a) => Truth(f.second, a))

\* The assignment a dict stands for
Assignment(m) == [k \in dict_keyset(m) |-> dict_get(m, k)]

Assignments(S) == [S -> BOOLEAN]

\* s is a variable name of the grammar: [p-z][0-9]*
GrammarVariable(s) ==
    /\ Len(s) >= 1
    /\ s[1] \in LettersPToZ
    /\ \A i \in 2..Len(s) : s[i] \in AsciiDigits

\* s is derivable from
\*   formula := variable | constant | ~formula | (formula binop formula)
RECURSIVE Derivable(_)
Derivable(s) ==
    \/ GrammarVariable(s)
    \/ s \in {<<"T">>, <<"F">>}
    \/ Len(s) >= 2 /\ s[1] = "~" /\ Derivable(Tail(s))
    \/ /\ Len(s) >= 5 /\ s[1] = "(" /\ s[Len(s)] = ")"
       /\ \E i \in 3..(Len(s) - 2) :
            \/ /\ s[i] \in {"&", "|"}
               /\ Derivable(SubSeq(s, 2, i - 1))
               /\ Derivable(SubSeq(s, i + 1, Len(s) - 1))
            \/ /\ s[i] = "-" /\ s[i + 1] = ">"
               /\ Derivable(SubSeq(s, 2, i - 1))
               /\ Derivable(SubSeq(s, i + 2, Len(s) - 1))

Distinct(s) == \A i, j \in 1..Len(s) : i # j => s[i] # s[j]

\* Bit j (0 the least significant) of k
Bit(k, j) == (k \div (2 ^ j)) % 2 = 1

IsDone(o) == pc = "done" /\ op = o

(***************************************************************************)
(* Properties.                                                             *)
(***************************************************************************)
\* C1: round trip.  For every formula f the constructor accepts, with
\* s = str(f): is_formula(s) returns True and parse(s) returns a formula
\* equal to f (the same tree, and equal by Formula.__eq__).
C1_RoundTrip ==
    /\ (IsDone("is_formula") /\ formula # None) =>
          /\ string = Formula__repr__(formula)
          /\ ret = Return(TRUE)
    /\ (IsDone("parse") /\ formula # None) =>
          /\ string = Formula__repr__(formula)
          /\ ret = Return(formula)
          /\ Formula__eq__(ret.val, formula)

\* (~p->q76) has been serialized and parsed back.
C1_Witness ==
    /\ IsDone("parse")
    /\ formula = Formula(<<"-", ">">>,
                         Formula(<<"~">>, Formula(<<"p">>, None, None), None),
                         Formula(<<"q", "7", "6">>, None, None))
    /\ string = <<"(", "~", "p", "-", ">", "q", "7", "6", ")">>
    /\ ret = Return(formula)

\* C2: is_formula is a total predicate that agrees with the grammar: on every
\* string it returns True exactly when the whole string is derivable from
\* formula := variable | constant | ~formula | (formula binop formula), with
\* variables [p-z][0-9]*, and False otherwise, never raising.
C2_IsFormulaAgreesWithGrammar ==
    IsDone("is_formula") => ret = Return(Derivable(string))

\* On strings without a non-ASCII digit is_formula does agree with the grammar.
C2_AgreesOnAsciiDigits ==
    (IsDone("is_formula") /\ \A i \in 1..Len(string) : string[i] \notin OtherUnicodeDigits)
        => ret = Return(Derivable(string))

\* C3 as stated: all_models(vs) over a list of n variable names returns 2^n
\* models, each assigning exactly the listed variables, the k-th (from 0)
\* giving the i-th variable bit n-i of k (False before True, first variable
\* most significant); one empty model for n = 0, and for ['p', 'q'] the list
\* [{p:F,q:F}, {p:F,q:T}, {p:T,q:F}, {p:T,q:T}].
LexicographicModels(vs, res) ==
    LET n == Len(vs) IN
    /\ res.kind = "return"
    /\ Len(res.val) = 2 ^ n
    /\ \A k \in 0..(2 ^ n - 1) :
          /\ dict_keyset(res.val[k + 1]) = {vs[i] : i \in 1..n}
          /\ \A i \in 1..n : dict_get(res.val[k + 1], vs[i]) = Bit(k, n - i)
    /\ n = 0 => res.val = << <<>> >>
    /\ vs = <<<<"p">>, <<"q">>>> =>
          res.val = << << <<<<"p">>, FALSE>>, <<<<"q">>, FALSE>> >>,
                       << <<<<"p">>, FALSE>>, <<<<"q">>, TRUE>> >>,
                       << <<<<"p">>, TRUE>>, <<<<"q">>, FALSE>> >>,
                       << <<<<"p">>, TRUE>>, <<<<"q">>, TRUE>> >> >>

C3_AllModelsAnyList == IsDone("all_models") => LexicographicModels(variables_, ret)

\* C3 as amended: all_models(vs) over a list of n pairwise distinct variable
\* names returns 2^n models, each assigning exactly the listed variables, in
\* lexicographic order, False before True, the first variable most significant
\* (the k-th model is the binary expansion of k); one empty model for n = 0.
C3_AllModelsDistinct ==
    (IsDone("all_models") /\ Distinct(variables_)) => LexicographicModels(variables_, ret)

\* all_models(['p', 'q']) has returned; its third model is {p:T, q:F}.
C3_Witness ==
    /\ IsDone("all_models")
    /\ variables_ = <<<<"p">>, <<"q">>>>
    /\ ret.kind = "return"
    /\ Len(ret.val) = 4
    /\ ret.val[3] = << <<<<"p">>, TRUE>>, <<<<"q">>, FALSE>> >>

\* C4: evaluate(formula, model), for a model covering the formula's variables,
\* returns the truth-functional value: the model's value of a variable, T true,
\* F false, ~ negation, & conjunction, | disjunction, -> false only when the
\* first operand is true and the second false.
C4_EvaluateTruthFunctional ==
    (/\ IsDone("evaluate")
     /\ is_model(model)
     /\ Formula_variables(formula) \subseteq dict_keyset(model))
        => ret = Return(Truth(formula, Assignment(model)))

\* ~(p&q76) has been evaluated to True under {p: True, q76: False}.
C4_Witness ==
    /\ IsDone("evaluate")
    /\ formula = Formula(<<"~">>, Formula(<<"&">>, Formula(<<"p">>, None, None),
                                          Formula(<<"q", "7", "6">>, None, None)), None)
    /\ model = << <<<<"p">>, TRUE>>, <<<<"q", "7", "6">>, FALSE>> >>
    /\ ret = Return(TRUE)

\* C5 as stated: for every non-empty variable list V and every truth table T
\* of length 2^|V|, truth_values(synthesize(V, T), all_models(V)) returns T.
C5_SynthesisAnyList == IsDone("truth_values") => ret = Return(values)

\* C5 as amended: for every non-empty list V of pairwise distinct variable
\* names and every truth table T of length 2^|V|,
\* truth_values(synthesize(V, T), all_models(V)) returns T.
C5_SynthesisDistinct ==
    (IsDone("truth_values") /\ Distinct(variables_)) => ret = Return(values)

\* synthesize(['p', 'q'], [True, False, False, True]) returned
\* ((~p&~q)|(p&q)), whose truth values came out as the table.
C5_Witness ==
    /\ IsDone("truth_values")
    /\ variables_ = <<<<"p">>, <<"q">>>>
    /\ values = <<TRUE, FALSE, FALSE, TRUE>>
    /\ Formula__repr__(formula) =
          <<"(", "(", "~", "p", "&", "~", "q", ")", "|", "(", "p", "&", "q", ")", ")">>
    /\ ret = Return(values)

\* C6: is_tautology(f) is True iff f is true under every model over
\* f.variables(); is_contradiction(f) is True iff f is false under every such
\* model (f is a contradiction iff ~f is a tautology); is_satisfiable(f) is
\* True iff f is true under at least one such model; also for f without
\* variables, and whatever the order in which f.variables() is iterated.
C6_Analysis ==
    LET A == Assignments(Formula_variables(formula)) IN
    /\ IsDone("is_tautology") => ret = Return(\A a \in A : Truth(formula, a))
    /\ IsDone("is_contradiction") =>
          /\ ret = Return(\A a \in A : ~Truth(formula, a))
          /\ ret = Return(\A a \in A : Truth(Formula(<<"~">>, formula, None), a))
    /\ IsDone("is_satisfiable") => ret = Return(\E a \in A : Truth(formula, a))

\* is_satisfiable((p->q76)) returned True although (p->q76) is no tautology;
\* the set {p, q76} was iterated q76 first.
C6_Witness ==
    /\ IsDone("is_satisfiable")
    /\ formula = Formula(<<"-", ">">>, Formula(<<"p">>, None, None),
                                      Formula(<<"q", "7", "6">>, None, None))
    /\ order = <<<<"q", "7", "6">>, <<"p">>>>
    /\ ret = Return(TRUE)
    /\ \E a \in Assignments(Formula_variables(formula)) : ~Truth(formula, a)

\* The rewriting C8 describes: each variable of the tree that is a key of the
\* map becomes the mapped formula, every other node is copied; what is put in
\* is not rewritten again.
RECURSIVE SubstitutedVariables(_, _)
SubstitutedVariables(f, map) ==
    IF is_variable(f.root)
    THEN IF f.root \in dict_keyset(map) THEN dict_get(map, f.root) ELSE f
    ELSE IF is_constant(f.root) THEN f
    ELSE IF is_unary(f.root)
    THEN Formula(f.root, SubstitutedVariables(f.first, map), None)
    ELSE Formula(f.root, SubstitutedVariables(f.first, map),
                         SubstitutedVariables(f.second, map))

\* The rewriting C7 describes: the operands are rewritten first; a node whose
\* operator or constant is a key becomes the key's template with p standing
\* for the rewritten first operand and q for the rewritten second one.
RECURSIVE SubstitutedOperators(_, _)
SubstitutedOperators(f, map) ==
    LET template == dict_get(map, f.root) IN
    IF is_variable(f.root) THEN f
    ELSE IF is_constant(f.root)
    THEN IF f.root \in dict_keyset(map) THEN template ELSE f
    ELSE IF is_unary(f.root)
    THEN LET first == SubstitutedOperators(f.first, map) IN
         IF f.root \in dict_keyset(map)
         THEN SubstitutedVariables(template, << <<<<"p">>, first>> >>)
         ELSE Formula(f.root, first, None)
    ELSE LET first == SubstitutedOperators(f.first, map)
             second == SubstitutedOperators(f.second, map) IN
         IF f.root \in dict_keyset(map)
         THEN SubstitutedVariables(template,
                                   << <<<<"p">>, first>>, <<<<"q">>, second>> >>)
         ELSE Formula(f.root, first, second)

\* The map satisfies the preconditions of substitute_operators.
OperatorMapOk(map) ==
    \A i \in 1..Len(map) :
        /\ is_binary(map[i][1]) \/ is_unary(map[i][1]) \/ is_constant(map[i][1])
        /\ Formula_variables(map[i][2]) \subseteq {<<"p">>, <<"q">>}

\* C7: substitute_operators(map) returns the formula in which every node whose
\* operator or constant is a key of the map is replaced by the key's template,
\* p instantiated to the rewritten first operand and q to the rewritten second
\* one, the operators of the templates left alone; substituting & with
\* ~(~p|~q) in ((x&y)&~z) returns ~(~~(~x|~y)|~~z).
C7_SubstituteOperators ==
    (IsDone("substitute_operators") /\ OperatorMapOk(substitution_map)) =>
        /\ ret = Return(SubstitutedOperators(formula, substitution_map))
        /\ (formula = ExampleFormula
            /\ substitution_map = << <<<<"&">>, TemplateAnd>> >>) =>
              /\ ret.kind = "return" /\ "val" \in DOMAIN ret
              /\ Formula__repr__(ret.val) =
                    <<"~", "(", "~", "~", "(", "~", "x", "|", "~", "y", ")",
                      "|", "~", "~", "z", ")">>

\* C8: substitute_variables(map) returns the formula in which every variable
\* of the tree that is a key of the map is replaced by the mapped formula and
\* every other node is copied, in one pass; ((p->p)|r) with {p: (q&r), r: p}
\* gives (((q&r)->(q&r))|p).
C8_SubstituteVariables ==
    (IsDone("substitute_variables")
     /\ \A i \in 1..Len(substitution_map) : is_variable(substitution_map[i][1])) =>
        /\ ret = Return(SubstitutedVariables(formula, substitution_map))
        /\ (formula = ExampleFormula2 /\ Len(substitution_map) = 2) =>
              /\ ret.kind = "return" /\ "val" \in DOMAIN ret
              /\ Formula__repr__(ret.val) =
                    <<"(", "(", "(", "q", "&", "r", ")", "-", ">",
                      "(", "q", "&", "r", ")", ")", "|", "p", ")">>

\* C9: evaluate_inference(rule, model), for a model covering the rule's
\* formulas, returns True iff the conclusion is true under the model or some
\* assumption is false under it.
C9_EvaluateInference ==
    (/\ IsDone("evaluate_inference")
     /\ is_model(model)
     /\ Formula_variables(rule.conclusion) \subseteq dict_keyset(model)
     /\ \A i \in 1..Len(rule.assumptions) :
           Formula_variables(rule.assumptions[i]) \subseteq dict_keyset(model)) =>
        ret = Return(\/ Truth(rule.conclusion, Assignment(model))
                     \/ \E i \in 1..Len(rule.assumptions) :
                           ~Truth(rule.assumptions[i], Assignment(model)))

\* The prefix serialization: the root, then the serializations of the operands
\* the root's arity gives it.
RECURSIVE PrefixForm(_)
PrefixForm(f) ==
    IF is_variable(f.root) \/ is_constant(f.root) THEN f.root
    ELSE IF is_unary(f.root) THEN f.root \o PrefixForm(f.first)
    ELSE f.root \o PrefixForm(f.first) \o PrefixForm(f.second)

\* C10: polish() returns, for every formula, its prefix serialization.
C10_Polish == IsDone("polish") => ret = Return(PrefixForm(formula))

\* C11: precondition violations of evaluate fail fast.  Whenever the model
\* has a key that is not a variable name ([p-z][0-9]*), or the formula has a
\* variable that is not a key of the model, evaluate(formula, model) raises an
\* error and returns no boolean, whatever the root of the formula.
PreconditionViolated(f, m) ==
    \/ \E i \in 1..Len(m) : ~GrammarVariable(m[i][1])
    \/ ~(Formula_variables(f) \subseteq dict_keyset(m))

C11_EvaluateFailsFast ==
    (IsDone("evaluate") /\ PreconditionViolated(formula, model)) => ret.kind = "raise"

\* With every key of the model free of non-ASCII digits, evaluate does raise
\* AssertionError on each violated precondition.
C11_FailsFastOnAsciiKeys ==
    (/\ IsDone("evaluate")
     /\ PreconditionViolated(formula, model)
     /\ \A i \in 1..Len(model) : \A j \in 1..Len(model[i][1]) :
           model[i][1][j] \notin OtherUnicodeDigits)
        => ret = Raise("AssertionError")

\* evaluate leaves the model as it was given.
C11_ModelUnchanged == [][op = "evaluate" => model' = model]_vars

\* The operands, left to right, of the nested applications of the binary
\* operator o at the top of f
RECURSIVE Operands(_, _)
Operands(f, o) ==
    IF f.root = o THEN Operands(f.first, o) \o Operands(f.second, o) ELSE <<f>>

\* The variables of the list vs, each once, in the order of first occurrence
RECURSIVE VariablesOf(_)
VariablesOf(vs) ==
    IF vs = <<>> THEN <<>>
    ELSE LET front == VariablesOf(SubSeq(vs, 1, Len(vs) - 1))
             last == vs[Len(vs)] IN
         IF \E i \in 1..Len(front) : front[i] = last THEN front ELSE Append(front, last)

\* The value model k (from 0) of the list vs gives the variable v: the bit of
\* k at the (last) position of v, the first position the most significant.
ValueIn(vs, k, v) ==
    LET i == CHOOSE i \in 1..Len(vs) :
                 vs[i] = v /\ \A j \in (i + 1)..Len(vs) : vs[j] # v
    IN  Bit(k, Len(vs) - i)

\* The indices (from 0) of the true entries among the first n of vals, increasing
RECURSIVE TrueIndices(_, _)
TrueIndices(vals, n) ==
    IF n = 0 THEN <<>>
    ELSE IF vals[n] THEN Append(TrueIndices(vals, n - 1), n - 1)
    ELSE TrueIndices(vals, n - 1)

\* The literal of v in model k of vs
LiteralOf(vs, k, v) ==
    IF ValueIn(vs, k, v)
    THEN Formula(v, None, None)
    ELSE Formula(<<"~">>, Formula(v, None, None), None)

\* C12: synthesize(V, T) has the DNF shape.  Read left to right, its disjuncts
\* are one clause per index i with T[i] true, in increasing order of i; read
\* left to right, the conjuncts of the clause of i are one literal per
\* variable of V, in the order of V, the bare variable when model i gives it
\* True and its negation otherwise; and with no true entry in T the result is
\* (V[0]&~V[0]).
C12_SynthesizeShape ==
    (IsDone("synthesize") /\ Len(variables_) > 0) =>
        LET idx == TrueIndices(values, Len(values))
            vs == VariablesOf(variables_) IN
        /\ ret.kind = "return"
        /\ "val" \in DOMAIN ret
        /\ IF idx = <<>>
           THEN Formula__repr__(ret.val) =
                   <<"(">> \o variables_[1] \o <<"&", "~">> \o variables_[1] \o <<")">>
           ELSE LET clauses == Operands(ret.val, <<"|">>) IN
                /\ Len(clauses) = Len(idx)
                /\ \A j \in 1..Len(idx) :
                      Operands(clauses[j], <<"&">>) =
                          [i \in 1..Len(vs) |-> LiteralOf(variables_, idx[j], vs[i])]

\* synthesize(['p', 'q'], [False, True, True, False]) returned ((~p&q)|(p&~q)).
C12_Witness ==
    /\ IsDone("synthesize")
    /\ variables_ = <<<<"p">>, <<"q">>>>
    /\ values = <<FALSE, TRUE, TRUE, FALSE>>
    /\ ret.kind = "return"
    /\ Formula__repr__(ret.val) =
          <<"(", "(", "~", "p", "&", "q", ")", "|", "(", "p", "&", "~", "q", ")", ")">>

====
